---- MODULE Spec2Model ----
(***************************************************************************)
(* The local persistence layer of the egg inventory application            *)
(* (src/App.js): the daily_records table, the Schema Manager               *)
(* (initializeDatabase, createNewTable, checkAndMigrateSchema) and the     *)
(* Record Store (saveDailyRecord, addCreditOnly, deleteRecord,             *)
(* resetDatabase, loadDailyRecords, calculateSummary).                     *)
(*                                                                         *)
(* Representation.  A date is a day number (ISO date strings order the     *)
(* way their days do).  REAL columns (price_per_egg, credit_amount,        *)
(* credits) hold tenths, so the text 1.5 is the number 15.  The text of a  *)
(* numeric form field is a sequence of one-character strings, parsed by    *)
(* ParseInt and ParseFloat.  Customer names are strings.                   *)
(***************************************************************************)
EXTENDS Integers, Sequences, FiniteSets, TLC

\* Bounds of the model.
MaxId == 2        \* AUTOINCREMENT ids handed out before inserts stop
MaxClock == 1     \* seconds the clock may advance
MaxNameLen == 4   \* characters of an accumulated credit_name
MaxRuns == 2      \* runs of initializeDatabase (process starts)

\* LIMIT of the recent-records query.
ListLimit == 30

\* SQL NULL in a numeric column, and JavaScript's NaN.
NULL == -9999
NaN == -8888
\* SQL NULL in a text column.
NullText == "NULL"

VARIABLES
    pc,            \* position of initializeDatabase's promise chain
    tableExists,   \* daily_records is in sqlite_master
    columns,       \* the optional columns the live table has
    rows,          \* the rows of daily_records
    seq,           \* sqlite_sequence: the largest id ever handed out
    clock,         \* CURRENT_TIMESTAMP, in seconds
    migrations,    \* the statements checkAndMigrateSchema issued, in order
    executed,      \* indexes of migrations the engine has run
    failed,        \* indexes of migrations that were rejected
    run,           \* which run of initializeDatabase this is
    prev,          \* the database as it was when this run started
    dailyRecords,  \* React state: the loaded list
    summary,       \* React state: the loaded totals
    alert          \* the last Alert shown to the user

vars == <<pc, tableExists, columns, rows, seq, clock, migrations, executed,
          failed, run, prev, dailyRecords, summary, alert>>

dbVars == <<tableExists, columns, rows, seq>>
schemaVars == <<pc, migrations, executed, failed, run, prev>>

----------------------------------------------------------------------------
\* Form input and its parsing.

Digits == <<"0", "1", "2", "3", "4", "5", "6", "7", "8", "9">>

IsDigit(c) == \E i \in 1..10 : Digits[i] = c

DigitValue(c) == (CHOOSE i \in 1..10 : Digits[i] = c) - 1

\* Number of leading digits of s from position i on.
RECURSIVE DigitRun(_, _)
DigitRun(s, i) ==
    IF i <= Len(s) /\ IsDigit(s[i]) THEN 1 + DigitRun(s, i + 1) ELSE 0

\* Value of the digits s[i .. i+n-1].
RECURSIVE DigitsValue(_, _, _)
DigitsValue(s, i, n) ==
    IF n = 0 THEN 0
    ELSE DigitsValue(s, i, n - 1) * 10 + DigitValue(s[i + n - 1])

\* parseInt: an optional sign, then the longest run of digits; NaN without one.
ParseInt(s) ==
    LET neg == Len(s) >= 1 /\ s[1] = "-"
        start == IF Len(s) >= 1 /\ s[1] \in {"-", "+"} THEN 2 ELSE 1
        n == DigitRun(s, start)
        v == DigitsValue(s, start, n)
    IN  IF n = 0 THEN NaN ELSE IF neg THEN 0 - v ELSE v

\* parseFloat, in tenths: sign, digits, and a fraction after a point; NaN when
\* neither part has a digit.  Fraction digits past the first are dropped.
ParseFloat(s) ==
    LET neg == Len(s) >= 1 /\ s[1] = "-"
        start == IF Len(s) >= 1 /\ s[1] \in {"-", "+"} THEN 2 ELSE 1
        n == DigitRun(s, start)
        point == start + n <= Len(s) /\ s[start + n] = "."
        m == IF point THEN DigitRun(s, start + n + 1) ELSE 0
        whole == DigitsValue(s, start, n)
        frac == IF m = 0 THEN 0 ELSE DigitValue(s[start + n + 1])
        v == whole * 10 + frac
    IN  IF n = 0 /\ m = 0 THEN NaN ELSE IF neg THEN 0 - v ELSE v

\* x || 0 on a number: NaN and 0 are falsy.
OrZero(x) == IF x = NaN \/ x = 0 THEN 0 ELSE x

\* record.column || 0 on a column value: null and 0 are falsy.
ColumnOrZero(x) == IF x = NULL \/ x = 0 THEN 0 ELSE x

\* a - b, a + b and a > b, a <= b on JavaScript numbers.
JsSub(a, b) == IF a = NaN \/ b = NaN THEN NaN ELSE a - b

JsAdd(a, b) == IF a = NaN \/ b = NaN THEN NaN ELSE a + b

JsGt(a, b) == a # NaN /\ b # NaN /\ a > b

JsLe(a, b) == a # NaN /\ b # NaN /\ a <= b

\* A number bound to a statement parameter: the engine stores NaN as NULL.
Bind(x) == IF x = NaN THEN NULL ELSE x

\* What the user types.
Dates == {1, 2}

\* The form as typed: the text of each field.
Form(producedEggs, breakages, soldEggs, pricePerEgg, creditAmount, creditName) ==
    [producedEggs |-> producedEggs, breakages |-> breakages,
     soldEggs |-> soldEggs, pricePerEgg |-> pricePerEgg,
     creditAmount |-> creditAmount, creditName |-> creditName]

\* Forms the Save button is pressed on: the optional fields blank; every
\* field filled; sold eggs above the available eggs; a negative count and a
\* credit that is no number; a required field blank.
SaveForms ==
    {Form(<<"2">>, <<>>, <<>>, <<"1", ".", "5">>, <<>>, ""),
     Form(<<"2">>, <<"1">>, <<"1">>, <<"2">>, <<"2">>, "X"),
     Form(<<"2">>, <<"1">>, <<"2">>, <<"2">>, <<>>, ""),
     Form(<<"2">>, <<"-", "1">>, <<"3">>, <<"2">>, <<".">>, ""),
     Form(<<"2">>, <<>>, <<>>, <<>>, <<"2">>, "X")}

\* Forms the Add Credit button is pressed on: two customers, an amount of
\* zero, and no name.
CreditForms ==
    {Form(<<>>, <<>>, <<>>, <<>>, <<"2">>, "X"),
     Form(<<>>, <<>>, <<>>, <<>>, <<"1", ".", "5">>, "Y"),
     Form(<<>>, <<>>, <<>>, <<>>, <<"0">>, "X"),
     Form(<<>>, <<>>, <<>>, <<>>, <<"2">>, "")}

----------------------------------------------------------------------------
\* The table.

OptionalColumns == {"sold_eggs", "credit_amount", "credit_name", "credits"}

CurrentColumns == {"sold_eggs", "credit_amount", "credit_name"}

\* A row a statement inserts at time now: the columns it does not name take
\* their defaults (created_at CURRENT_TIMESTAMP, a legacy credits column NULL).
NewRow(id, date, p, b, s, pr, ca, cn, now) ==
    [id |-> id, date |-> date, produced_eggs |-> p, breakages |-> b,
     sold_eggs |-> s, price_per_egg |-> pr, credit_amount |-> ca,
     credit_name |-> cn, created_at |-> now, credits |-> NULL]

\* INSERT OR REPLACE on a table whose date is not UNIQUE: nothing conflicts.
InsertKeepingConflict(tbl, row) == tbl \cup {row}

\* INSERT OR IGNORE in its place: the row that conflicts stays.
InsertOrIgnore(tbl, row) ==
    IF \E r \in tbl : r.date = row.date THEN tbl ELSE tbl \cup {row}

\* INSERT OR REPLACE: the row that conflicts on the UNIQUE date is deleted,
\* then the new row is inserted under a fresh AUTOINCREMENT id.
InsertOrReplace(tbl, row) == {r \in tbl : r.date # row.date} \cup {row}

\* Plain INSERT: rejected by the UNIQUE constraint when the date is taken.
InsertConflicts(tbl, row) == \E r \in tbl : r.date = row.date

Insert(tbl, row) == tbl \cup {row}

\* The UPDATE without its WHERE clause.
UpdateCreditEveryRow(tbl, date, ca, cn) ==
    {[r EXCEPT !.credit_amount = ca, !.credit_name = cn] : r \in tbl}

\* UPDATE daily_records SET credit_amount = ?, credit_name = ? WHERE date = ?
UpdateCredit(tbl, date, ca, cn) ==
    {IF r.date = date
        THEN [r EXCEPT !.credit_amount = ca, !.credit_name = cn]
        ELSE r : r \in tbl}

\* The DELETE keyed by the wrong column.
DeleteByDate(tbl, id) == {r \in tbl : r.date # id}

\* DELETE FROM daily_records WHERE id = ?
DeleteById(tbl, id) == {r \in tbl : r.id # id}

\* SELECT * FROM daily_records WHERE date = ?
SelectByDate(tbl, date) == {r \in tbl : r.date = date}

\* SELECT * FROM daily_records ORDER BY date DESC LIMIT n
RECURSIVE OrderByDateDesc(_, _)
OrderByDateDesc(tbl, n) ==
    IF tbl = {} \/ n = 0 THEN <<>>
    ELSE LET r == CHOOSE x \in tbl : \A y \in tbl : y.date <= x.date
         IN  <<r>> \o OrderByDateDesc(tbl \ {r}, n - 1)

\* SUM over a column expression: NULLs are skipped, and the sum of no
\* value is NULL.
RECURSIVE SqlSum(_)
SqlSum(f) ==
    IF DOMAIN f = {} THEN NULL
    ELSE LET r == CHOOSE x \in DOMAIN f : TRUE
             rest == SqlSum([x \in DOMAIN f \ {r} |-> f[x]])
         IN  IF f[r] = NULL THEN rest
             ELSE IF rest = NULL THEN f[r] ELSE rest + f[r]

SqlMul(a, b) == IF a = NULL \/ b = NULL THEN NULL ELSE a * b

Coalesce(x, d) == IF x = NULL THEN d ELSE x

\* The aggregate query of calculateSummary.
SummaryQuery(tbl) ==
    [totalProduced |-> Coalesce(SqlSum([r \in tbl |-> r.produced_eggs]), 0),
     totalBreakages |-> Coalesce(SqlSum([r \in tbl |-> r.breakages]), 0),
     totalSold |-> Coalesce(SqlSum([r \in tbl |-> r.sold_eggs]), 0),
     totalCashSales |->
         Coalesce(SqlSum([r \in tbl |-> SqlMul(r.sold_eggs, r.price_per_egg)]), 0),
     totalCredits |-> Coalesce(SqlSum([r \in tbl |-> r.credit_amount]), 0)]

ZeroSummary ==
    [totalProduced |-> 0, totalBreakages |-> 0, totalSold |-> 0,
     totalCashSales |-> 0, totalCredits |-> 0]

\* The totals taken over the rows loadDailyRecords lists, not the table.
CalculateSummaryOfListed(tbl, cols, old) ==
    LET listed == OrderByDateDesc(tbl, ListLimit)
    IN  IF {"sold_eggs", "credit_amount"} \subseteq cols
        THEN SummaryQuery({listed[i] : i \in 1..Len(listed)}) ELSE old

\* calculateSummary: the query fails on a table without its columns, and the
\* summary then stays what it was.
CalculateSummary(tbl, cols, old) ==
    IF {"sold_eggs", "credit_amount"} \subseteq cols THEN SummaryQuery(tbl) ELSE old

\* loadDailyRecords: the list, then the summary.
LoadDailyRecords(tbl) == OrderByDateDesc(tbl, ListLimit)

Reload(tbl, cols) ==
    /\ dailyRecords' = LoadDailyRecords(tbl)
    /\ summary' = CalculateSummary(tbl, cols, summary)

----------------------------------------------------------------------------
\* The alerts of the handlers.

SaveError == "Please fill in produced eggs and price per egg"

SoldError == "Sold eggs cannot exceed available eggs"

SaveSuccess == "Daily record saved successfully!"

CreditError == "Please enter credit amount and customer name"

CreditFailure == "Failed to add credit"

CreditSuccess == "Credit added successfully!"

DeleteSuccess == "Record deleted successfully!"

ResetSuccess == "Database reset with new schema. Loading fresh..."

----------------------------------------------------------------------------
\* saveDailyRecord

\* The two early returns: a blank required field, or sold eggs above the
\* available eggs.
SaveRejected(producedEggs, pricePerEgg, breakagesValue, soldEggsValue) ==
    \/ producedEggs = <<>>
    \/ pricePerEgg = <<>>
    \/ JsGt(soldEggsValue, JsSub(ParseInt(producedEggs), breakagesValue))

\* The row INSERT OR REPLACE is given.
SavedRow(id, date, producedEggs, breakages, soldEggs, pricePerEgg, creditAmount, creditName, now) ==
    NewRow(id, date,
           Bind(ParseInt(producedEggs)),
           Bind(OrZero(ParseInt(breakages))),
           Bind(OrZero(ParseInt(soldEggs))),
           Bind(ParseFloat(pricePerEgg)),
           Bind(OrZero(ParseFloat(creditAmount))),
           creditName, now)

SaveDailyRecord(date, producedEggs, breakages, soldEggs, pricePerEgg, creditAmount, creditName) ==
    LET breakagesValue == OrZero(ParseInt(breakages))
        soldEggsValue == OrZero(ParseInt(soldEggs))
        row == SavedRow(seq + 1, date, producedEggs, breakages, soldEggs,
                        pricePerEgg, creditAmount, creditName, clock)
    IN  /\ pc = "ready"
        /\ IF SaveRejected(producedEggs, pricePerEgg, breakagesValue, soldEggsValue)
           THEN /\ alert' = IF producedEggs = <<>> \/ pricePerEgg = <<>>
                            THEN SaveError ELSE SoldError
                /\ UNCHANGED <<dbVars, dailyRecords, summary>>
           ELSE /\ seq < MaxId
                /\ alert' = SaveSuccess
                /\ rows' = InsertOrReplace(rows, row)
                /\ seq' = seq + 1
                /\ Reload(rows', columns)
                /\ UNCHANGED <<tableExists, columns>>
        /\ UNCHANGED <<clock, schemaVars>>

----------------------------------------------------------------------------
\* addCreditOnly

AddCreditRejected(creditAmount, creditName) ==
    \/ creditAmount = <<>>
    \/ JsLe(ParseFloat(creditAmount), 0)
    \/ creditName = ""

\* The stored amount overwritten instead of added to.
NewCreditAmountOverwritten(existingRecord, creditAmount) == ParseFloat(creditAmount)

NewCreditAmount(existingRecord, creditAmount) ==
    JsAdd(ColumnOrZero(existingRecord.credit_amount), ParseFloat(creditAmount))

NewCreditName(existingRecord, creditName) ==
    IF existingRecord.credit_name \notin {"", NullText}
    THEN existingRecord.credit_name \o ", " \o creditName
    ELSE creditName

\* The row the INSERT of addCreditOnly is given.
CreditRow(id, date, creditAmount, creditName, now) ==
    NewRow(id, date, 0, 0, 0, 0, Bind(ParseFloat(creditAmount)), creditName, now)

AddCreditOnly(date, creditAmount, creditName) ==
    LET found == SelectByDate(rows, date)
    IN  /\ pc = "ready"
        /\ IF AddCreditRejected(creditAmount, creditName)
           THEN /\ alert' = CreditError
                /\ UNCHANGED <<dbVars, dailyRecords, summary>>
           ELSE IF found # {}
           THEN LET existingRecord == CHOOSE r \in found : TRUE
                    newCreditAmount == NewCreditAmount(existingRecord, creditAmount)
                    newCreditName == NewCreditName(existingRecord, creditName)
                IN  /\ Len(newCreditName) <= MaxNameLen
                    /\ alert' = CreditSuccess
                    /\ rows' = UpdateCredit(rows, date, Bind(newCreditAmount),
                                            newCreditName)
                    /\ Reload(rows', columns)
                    /\ UNCHANGED <<tableExists, columns, seq>>
           ELSE LET row == CreditRow(seq + 1, date, creditAmount, creditName, clock)
                IN  IF InsertConflicts(rows, row)
                    THEN /\ alert' = CreditFailure
                         /\ UNCHANGED <<dbVars, dailyRecords, summary>>
                    ELSE /\ seq < MaxId
                         /\ alert' = CreditSuccess
                         /\ rows' = Insert(rows, row)
                         /\ seq' = seq + 1
                         /\ Reload(rows', columns)
                         /\ UNCHANGED <<tableExists, columns>>
        /\ UNCHANGED <<clock, schemaVars>>

----------------------------------------------------------------------------
\* deleteRecord: the success alert follows whatever the statement changed.

DeleteRecord(id) ==
    /\ pc = "ready"
    /\ alert' = DeleteSuccess
    /\ rows' = DeleteById(rows, id)
    /\ Reload(rows', columns)
    /\ UNCHANGED <<tableExists, columns, seq, clock, schemaVars>>

----------------------------------------------------------------------------
\* createNewTable: CREATE TABLE IF NOT EXISTS leaves an existing table as it
\* is; a new table has the full schema, no row and no sqlite_sequence entry.

Database(exists, cols, tbl, sq) ==
    [tableExists |-> exists, columns |-> cols, rows |-> tbl, seq |-> sq]

CreateNewTable(db) ==
    IF db.tableExists THEN db ELSE Database(TRUE, CurrentColumns, {}, 0)

\* DROP TABLE IF EXISTS drops the rows and the table's sqlite_sequence entry.
DropTable(db) == Database(FALSE, {}, {}, 0)

SetDatabase(db) ==
    /\ tableExists' = db.tableExists
    /\ columns' = db.columns
    /\ rows' = db.rows
    /\ seq' = db.seq

CurrentDatabase == Database(tableExists, columns, rows, seq)

\* resetDatabase: DROP TABLE IF EXISTS, then createNewTable, then a reload.
ResetDatabase ==
    /\ pc = "ready"
    /\ SetDatabase(CreateNewTable(DropTable(CurrentDatabase)))
    /\ alert' = ResetSuccess
    /\ Reload(rows', columns')
    /\ UNCHANGED <<clock, schemaVars>>

\* A second passes.
Tick ==
    /\ pc = "ready"
    /\ clock < MaxClock
    /\ clock' = clock + 1
    /\ UNCHANGED <<dbVars, schemaVars, dailyRecords, summary, alert>>

----------------------------------------------------------------------------
\* The Record Store, on the database a first start leaves: the full schema
\* and no row.

NoAlert == ""

Init ==
    /\ pc = "ready"
    /\ tableExists = TRUE
    /\ columns = CurrentColumns
    /\ rows = {}
    /\ seq = 0
    /\ clock = 0
    /\ migrations = <<>>
    /\ executed = {}
    /\ failed = {}
    /\ run = 1
    /\ prev = Database(FALSE, {}, {}, 0)
    /\ dailyRecords = <<>>
    /\ summary = ZeroSummary
    /\ alert = NoAlert

Save ==
    \E date \in Dates, f \in SaveForms :
        SaveDailyRecord(date, f.producedEggs, f.breakages, f.soldEggs,
                        f.pricePerEgg, f.creditAmount, f.creditName)

AddCredit ==
    \E date \in Dates, f \in CreditForms :
        AddCreditOnly(date, f.creditAmount, f.creditName)

Delete == \E id \in 1..MaxId : DeleteRecord(id)

Next == Save \/ AddCredit \/ Delete \/ ResetDatabase \/ Tick

Spec == Init /\ [][Next]_vars

----------------------------------------------------------------------------
\* The Schema Manager.

AddColumn(c) == [kind |-> "ADD COLUMN", column |-> c]

\* UPDATE daily_records SET credit_amount = credits
\*   WHERE credit_amount = 0 AND credits IS NOT NULL
Backfill == [kind |-> "UPDATE", column |-> "credit_amount"]

\* The statements checkAndMigrateSchema pushes for the column names PRAGMA
\* table_info returned, in the order it pushes them.
Migrations(columnNames) ==
    (IF "sold_eggs" \notin columnNames THEN <<AddColumn("sold_eggs")>> ELSE <<>>)
    \o (IF "credit_amount" \notin columnNames
        THEN <<AddColumn("credit_amount")>> ELSE <<>>)
    \o (IF "credit_name" \notin columnNames
        THEN <<AddColumn("credit_name")>> ELSE <<>>)
    \o (IF "credits" \in columnNames
        THEN (IF "credit_amount" \notin columnNames
              THEN <<AddColumn("credit_amount")>> ELSE <<>>)
             \o <<Backfill>>
        ELSE <<>>)

\* ADD COLUMN without its DEFAULT: every row takes NULL.
AddColumnNoDefault(tbl, c) ==
    {CASE c = "sold_eggs" -> [r EXCEPT !.sold_eggs = NULL]
       [] c = "credit_amount" -> [r EXCEPT !.credit_amount = NULL]
       [] c = "credit_name" -> [r EXCEPT !.credit_name = NullText]
       [] OTHER -> r : r \in tbl}

\* ALTER TABLE daily_records ADD COLUMN c ... DEFAULT d: every row takes the
\* default.
AddColumnRows(tbl, c) ==
    {CASE c = "sold_eggs" -> [r EXCEPT !.sold_eggs = 0]
       [] c = "credit_amount" -> [r EXCEPT !.credit_amount = 0]
       [] c = "credit_name" -> [r EXCEPT !.credit_name = ""]
       [] OTHER -> r : r \in tbl}

BackfillRows(tbl) ==
    {IF r.credit_amount = 0 /\ r.credits # NULL
        THEN [r EXCEPT !.credit_amount = r.credits]
        ELSE r : r \in tbl}

\* The engine rejects a second column of the same name, and a statement that
\* names a column the table does not have.
StatementFails(stmt, cols) ==
    IF stmt.kind = "ADD COLUMN" THEN stmt.column \in cols
    ELSE ~({"credit_amount", "credits"} \subseteq cols)

Execute(stmt, db) ==
    IF StatementFails(stmt, db.columns) THEN db
    ELSE IF stmt.kind = "ADD COLUMN"
    THEN [db EXCEPT !.columns = @ \cup {stmt.column},
                    !.rows = AddColumnRows(@, stmt.column)]
    ELSE [db EXCEPT !.rows = BackfillRows(@)]

Pending == (1..Len(migrations)) \ executed

\* initializeDatabase up to where its statements are in flight: the table is
\* looked up, then created, or its columns read and the migrations issued.
InitializeDatabase ==
    /\ pc = "boot"
    /\ IF ~tableExists
       THEN /\ SetDatabase(CreateNewTable(CurrentDatabase))
            /\ migrations' = <<>>
            /\ pc' = "loading"
       ELSE /\ migrations' = Migrations(columns)
            /\ pc' = "migrating"
            /\ UNCHANGED dbVars
    /\ executed' = {}
    /\ failed' = {}
    /\ UNCHANGED <<clock, run, prev, dailyRecords, summary, alert>>

\* The engine runs one of the statements in flight.  They were issued
\* without waiting for one another (Promise.all only collects them), so the
\* engine may take them in any order.
RunMigration(i) ==
    /\ i \in Pending
    /\ SetDatabase(Execute(migrations[i], CurrentDatabase))
    /\ executed' = executed \cup {i}
    /\ failed' = IF StatementFails(migrations[i], columns)
                 THEN failed \cup {i} ELSE failed
    /\ UNCHANGED <<pc, clock, migrations, run, prev, dailyRecords, summary, alert>>

\* Promise.all resolves once every statement has succeeded.
MigrationCompleted ==
    /\ pc = "migrating"
    /\ Pending = {}
    /\ failed = {}
    /\ pc' = "loading"
    /\ UNCHANGED <<dbVars, clock, migrations, executed, failed, run, prev,
                   dailyRecords, summary, alert>>

\* The catch handler abandons the chain without loading anything.
FallbackLogsOnly ==
    /\ pc' = "halted"
    /\ UNCHANGED dbVars

\* The catch handler of initializeDatabase: createNewTable again, then
\* loadDailyRecords.
Fallback ==
    /\ SetDatabase(CreateNewTable(CurrentDatabase))
    /\ pc' = "loading"

\* Promise.all rejects as soon as one statement has failed: the catch handler
\* runs, whatever is still in flight.
MigrationFailed ==
    /\ pc = "migrating"
    /\ failed # {}
    /\ Fallback
    /\ UNCHANGED <<clock, migrations, executed, failed, run, prev,
                   dailyRecords, summary, alert>>

\* loadDailyRecords, as initializeDatabase calls it.
LoadRecords ==
    /\ pc = "loading"
    /\ Reload(rows, columns)
    /\ pc' = "ready"
    /\ UNCHANGED <<dbVars, clock, migrations, executed, failed, run, prev, alert>>

\* The process ends and starts again on the database it left.
Restart ==
    /\ pc = "ready"
    /\ Pending = {}
    /\ run < MaxRuns
    /\ pc' = "boot"
    /\ run' = run + 1
    /\ prev' = CurrentDatabase
    /\ migrations' = <<>>
    /\ executed' = {}
    /\ failed' = {}
    /\ dailyRecords' = <<>>
    /\ summary' = ZeroSummary
    /\ alert' = NoAlert
    /\ UNCHANGED <<dbVars, clock>>

\* A row an older version of the application wrote, under the columns the
\* table had: a column the table lacks holds nothing.
LegacyRow(id, cols, ca, cr) ==
    [id |-> id, date |-> id, produced_eggs |-> 2, breakages |-> 1,
     sold_eggs |-> IF "sold_eggs" \in cols THEN 1 ELSE NULL,
     price_per_egg |-> 15,
     credit_amount |-> IF "credit_amount" \in cols THEN ca ELSE NULL,
     credit_name |-> IF "credit_name" \notin cols THEN NullText
                     ELSE IF "credit_amount" \in cols /\ ca # 0 THEN "X" ELSE "",
     created_at |-> 0,
     credits |-> IF "credits" \in cols THEN cr ELSE NULL]

LegacyRows(id, cols) ==
    {LegacyRow(id, cols, ca, cr) : ca \in {0, 20}, cr \in {NULL, 0, 30}}

\* The tables a start may find: none, or one of any older schema, with up to
\* two rows.
LegacyDatabases ==
    {Database(FALSE, {}, {}, 0)}
    \cup {Database(TRUE, cols, {}, 0) : cols \in SUBSET OptionalColumns}
    \cup UNION {{Database(TRUE, cols, {r1}, 1) : r1 \in LegacyRows(1, cols)}
                : cols \in SUBSET OptionalColumns}
    \cup UNION {{Database(TRUE, cols, {r1, r2}, 2) :
                   r1 \in LegacyRows(1, cols), r2 \in LegacyRows(2, cols)}
                : cols \in SUBSET OptionalColumns}

InitSchema ==
    /\ pc = "boot"
    /\ \E db \in LegacyDatabases :
        /\ tableExists = db.tableExists
        /\ columns = db.columns
        /\ rows = db.rows
        /\ seq = db.seq
        /\ prev = db
    /\ clock = 0
    /\ migrations = <<>>
    /\ executed = {}
    /\ failed = {}
    /\ run = 1
    /\ dailyRecords = <<>>
    /\ summary = ZeroSummary
    /\ alert = NoAlert

Migrate == \E i \in 1..Len(migrations) : RunMigration(i)

NextSchema ==
    \/ InitializeDatabase
    \/ Migrate
    \/ MigrationCompleted
    \/ MigrationFailed
    \/ LoadRecords
    \/ Restart

SpecSchema == InitSchema /\ [][NextSchema]_vars

----------------------------------------------------------------------------
\* The Schema Manager when a statement of the chain is rejected by the
\* engine (the database is locked, the disk is full): the rejection reaches
\* the catch handler, whose own statement then succeeds.

\* The sqlite_master lookup is rejected.
DetectionFailed ==
    /\ pc = "boot"
    /\ Fallback
    /\ UNCHANGED <<clock, migrations, executed, failed, run, prev,
                   dailyRecords, summary, alert>>

\* The table is absent and the CREATE TABLE of createNewTable is rejected.
CreationFailed ==
    /\ pc = "boot"
    /\ ~tableExists
    /\ Fallback
    /\ UNCHANGED <<clock, migrations, executed, failed, run, prev,
                   dailyRecords, summary, alert>>

\* The table is present and PRAGMA table_info is rejected: no migration is
\* issued.
TableInfoFailed ==
    /\ pc = "boot"
    /\ tableExists
    /\ Fallback
    /\ UNCHANGED <<clock, migrations, executed, failed, run, prev,
                   dailyRecords, summary, alert>>

NextFallback ==
    \/ InitializeDatabase
    \/ DetectionFailed
    \/ CreationFailed
    \/ TableInfoFailed
    \/ Migrate
    \/ MigrationCompleted
    \/ MigrationFailed
    \/ LoadRecords
    \/ Restart

\* Every promise of the chain settles and every continuation is run by the
\* event loop; nothing obliges a statement to be rejected or the process to
\* start again.
SpecFallback ==
    /\ InitSchema
    /\ [][NextFallback]_vars
    /\ WF_vars(InitializeDatabase)
    /\ WF_vars(Migrate)
    /\ WF_vars(MigrationCompleted)
    /\ WF_vars(MigrationFailed)
    /\ WF_vars(LoadRecords)

----------------------------------------------------------------------------
\* Properties of the Record Store (under Spec).

RowsOn(tbl, date) == {r \in tbl : r.date = date}

\* C1: after any sequence of full saves, credit-only adds, deletes and resets
\* the table holds at most one row per date.
C1_OneRowPerDate ==
    \A r1 \in rows, r2 \in rows : r1.date = r2.date => r1 = r2

\* A second write to a date has happened (the second id is in the table, on
\* its own) and the table still has one row.
C1_Witness ==
    /\ alert = SaveSuccess
    /\ seq = 2
    /\ Cardinality(rows) = 1
    /\ \E r \in rows : r.id = 2

\* The values a form gives, for a form whose numbers all parse: a blank
\* optional field gives 0.
ValueOr0(text, value) == IF text = <<>> THEN 0 ELSE value

GivenValues(f) ==
    [produced_eggs |-> ParseInt(f.producedEggs),
     breakages |-> ValueOr0(f.breakages, ParseInt(f.breakages)),
     sold_eggs |-> ValueOr0(f.soldEggs, ParseInt(f.soldEggs)),
     price_per_egg |-> ParseFloat(f.pricePerEgg),
     credit_amount |-> ValueOr0(f.creditAmount, ParseFloat(f.creditAmount)),
     credit_name |-> f.creditName]

ValidSaveForm(f) ==
    LET g == GivenValues(f)
    IN  /\ f.producedEggs # <<>> /\ f.pricePerEgg # <<>>
        /\ NaN \notin {g.produced_eggs, g.breakages, g.sold_eggs,
                       g.price_per_egg, g.credit_amount}
        /\ g.sold_eggs <= g.produced_eggs - g.breakages

StoredValues(r) ==
    [produced_eggs |-> r.produced_eggs, breakages |-> r.breakages,
     sold_eggs |-> r.sold_eggs, price_per_egg |-> r.price_per_egg,
     credit_amount |-> r.credit_amount, credit_name |-> r.credit_name]

\* C2: after a full save of a valid form for a date, exactly one row for
\* that date exists and its six value columns are exactly the given values,
\* whatever the table held for the date before; a save of values the row
\* already holds leaves them as they were.
C2_SaveStoresGivenValues ==
    [][alert' = SaveSuccess => \A date \in Dates, f \in SaveForms :
          (/\ ValidSaveForm(f)
           /\ SaveDailyRecord(date, f.producedEggs, f.breakages, f.soldEggs,
                              f.pricePerEgg, f.creditAmount, f.creditName))
          => /\ Cardinality(RowsOn(rows', date)) = 1
             /\ \A r \in RowsOn(rows', date) : StoredValues(r) = GivenValues(f)
             /\ \A r \in RowsOn(rows, date), t \in RowsOn(rows', date) :
                   StoredValues(r) = GivenValues(f)
                       => StoredValues(t) = StoredValues(r)]_vars

\* A full save has replaced a row: the row carries the second id, and none
\* of the credit a credit-bearing row would have kept.
C2_Witness ==
    /\ alert = SaveSuccess
    /\ seq = 2
    /\ \E r \in rows :
          /\ r.id = 2 /\ r.date = 1 /\ r.produced_eggs = 2
          /\ r.credit_amount = 0 /\ r.credit_name = ""
    /\ \A r \in rows : r.date = 1

\* The amount a credit form gives, and whether it meets addCreditOnly's
\* precondition: an amount above zero and a name.
ValidCreditForm(f) ==
    /\ f.creditAmount # <<>>
    /\ ParseFloat(f.creditAmount) # NaN
    /\ ParseFloat(f.creditAmount) > 0
    /\ f.creditName # ""

\* C3: addCreditOnly on an existing row adds the given amount to the stored
\* credit_amount and appends the given name after ", " (or stores the name
\* alone when the stored one is empty); on a date without a row it stores
\* the amount and the name; either way one row for the date results, so two
\* calls with a, X and b, Y on a fresh date leave a + b and "X, Y".
C3_CreditAccumulates ==
    [][alert' = CreditSuccess => \A date \in Dates, f \in CreditForms :
          (/\ ValidCreditForm(f)
           /\ AddCreditOnly(date, f.creditAmount, f.creditName))
          => /\ Cardinality(RowsOn(rows', date)) = 1
             /\ \A t \in RowsOn(rows', date) :
                   IF RowsOn(rows, date) = {}
                   THEN /\ t.credit_amount = ParseFloat(f.creditAmount)
                        /\ t.credit_name = f.creditName
                   ELSE \A r \in RowsOn(rows, date) :
                        /\ t.credit_amount =
                              (IF r.credit_amount = NULL THEN 0 ELSE r.credit_amount)
                              + ParseFloat(f.creditAmount)
                        /\ t.credit_name =
                              IF r.credit_name = "" THEN f.creditName
                              ELSE r.credit_name \o ", " \o f.creditName]_vars

\* Two credit-only adds on a fresh date: 2.0 for X, then 1.5 for Y.
C3_Witness ==
    /\ alert = CreditSuccess
    /\ \E r \in rows :
          /\ r.credit_name = "X, Y" /\ r.credit_amount = 35
          /\ r.produced_eggs = 0 /\ r.price_per_egg = 0

NonCreditValues(r) ==
    [id |-> r.id, date |-> r.date, produced_eggs |-> r.produced_eggs,
     breakages |-> r.breakages, sold_eggs |-> r.sold_eggs,
     price_per_egg |-> r.price_per_egg, created_at |-> r.created_at]

\* C4: addCreditOnly changes nothing but the two credit columns of the row
\* of its date; when the date has no row, the row it inserts has
\* produced_eggs, breakages, sold_eggs and price_per_egg at zero; the rows of
\* other dates stay as they are.
C4_CreditOnlyFrame ==
    [][alert' \in {CreditSuccess, CreditError} => \A date \in Dates, f \in CreditForms :
          AddCreditOnly(date, f.creditAmount, f.creditName)
          => /\ {r \in rows : r.date # date} = {r \in rows' : r.date # date}
             /\ \A r \in RowsOn(rows, date) :
                   \E t \in RowsOn(rows', date) :
                       NonCreditValues(t) = NonCreditValues(r)
             /\ RowsOn(rows, date) = {} =>
                   \A t \in RowsOn(rows', date) :
                       /\ t.produced_eggs = 0 /\ t.breakages = 0
                       /\ t.sold_eggs = 0 /\ t.price_per_egg = 0]_vars

\* A credit has been added to a saved row while another date had a row too:
\* no save form gives the name "Y" to a row with two produced eggs.
C4_Witness ==
    /\ alert = CreditSuccess
    /\ Cardinality(rows) = 2
    /\ \E r \in rows : r.produced_eggs = 2 /\ r.credit_name = "Y"

\* C6: deleteRecord on an id no row has changes no row and still reports
\* success; on an id a row has it removes that row and no other.
C6_DeleteById ==
    [][alert' = DeleteSuccess => \A id \in 1..MaxId :
          DeleteRecord(id)
          => /\ alert' = DeleteSuccess
             /\ IF \E r \in rows : r.id = id
                THEN /\ rows' = {r \in rows : r.id # id}
                     /\ Cardinality(rows) - Cardinality(rows') = 1
                ELSE rows' = rows]_vars

\* A delete has found nothing: one id was ever handed out, its row is still
\* there, and the last alert is the delete's.
C6_Witness ==
    /\ alert = DeleteSuccess
    /\ seq = 1
    /\ Cardinality(rows) = 1

\* C9: a row keeps its id and its created_at through every write to its date.
C9_IdAndCreatedAtKept ==
    [][\A r \in rows, t \in rows' :
          t.date = r.date => t.id = r.id /\ t.created_at = r.created_at]_vars

\* C10: every row in the table satisfies 0 <= breakages <= produced_eggs and
\* 0 <= sold_eggs <= produced_eggs - breakages (the rows a credit-only add
\* inserts hold zeros), because saveDailyRecord rejects every other save.
C10_SavedRowsWithinBounds ==
    \A r \in rows :
        /\ r.produced_eggs # NULL
        /\ 0 <= r.breakages /\ r.breakages <= r.produced_eggs
        /\ 0 <= r.sold_eggs /\ r.sold_eggs <= r.produced_eggs - r.breakages

----------------------------------------------------------------------------
\* calculateSummary as a function of the table (under SpecSummary):
\* initializeDatabase has settled the schema and is about to load, on a table
\* earlier sessions filled with the days 3 .. n + 2, and with up to two older
\* days of varied content.

StockRow(day) ==
    [id |-> day, date |-> day, produced_eggs |-> 1, breakages |-> 0,
     sold_eggs |-> 1, price_per_egg |-> 10, credit_amount |-> 5,
     credit_name |-> "S", created_at |-> 0, credits |-> NULL]

StockRows(n) == {StockRow(day) : day \in 3..(n + 2)}

OlderRows(day) ==
    {[id |-> day, date |-> day, produced_eggs |-> p, breakages |-> 1,
      sold_eggs |-> s, price_per_egg |-> pr, credit_amount |-> ca,
      credit_name |-> "", created_at |-> 0, credits |-> NULL] :
        p \in {3, NULL}, s \in {1, 2}, pr \in {15, 20}, ca \in {0, 20, NULL}}

OlderTables ==
    {{}} \cup {{r} : r \in OlderRows(1)}
         \cup {{r1, r2} : r1 \in OlderRows(1), r2 \in OlderRows(2)}

InitSummary ==
    /\ pc = "loading"
    /\ tableExists = TRUE
    /\ columns = CurrentColumns
    /\ \E n \in {0, ListLimit - 1, ListLimit}, older \in OlderTables :
          /\ rows = StockRows(n) \cup older
          /\ seq = n + 2
    /\ clock = 0
    /\ migrations = <<>>
    /\ executed = {}
    /\ failed = {}
    /\ run = 1
    /\ prev = Database(TRUE, CurrentColumns, rows, seq)
    /\ dailyRecords = <<>>
    /\ summary = ZeroSummary
    /\ alert = NoAlert

NextSummary == LoadRecords

SpecSummary == InitSummary /\ [][NextSummary]_vars

\* The sum of a number for each row.
RECURSIVE Total(_)
Total(f) ==
    IF DOMAIN f = {} THEN 0
    ELSE LET r == CHOOSE x \in DOMAIN f : TRUE
         IN  f[r] + Total([x \in DOMAIN f \ {r} |-> f[x]])

NullAs0(x) == IF x = NULL THEN 0 ELSE x

\* C5: the loaded summary holds the sums of produced_eggs, breakages,
\* sold_eggs and credit_amount and the sum of the rows' sold_eggs times
\* price_per_egg, over every row of the table (a column that holds no number
\* adds nothing), also when the table has more rows than are listed; over an
\* empty table every total is 0.
C5_SummaryTotals ==
    pc = "ready" =>
        /\ summary.totalProduced = Total([r \in rows |-> NullAs0(r.produced_eggs)])
        /\ summary.totalBreakages = Total([r \in rows |-> NullAs0(r.breakages)])
        /\ summary.totalSold = Total([r \in rows |-> NullAs0(r.sold_eggs)])
        /\ summary.totalCredits = Total([r \in rows |-> NullAs0(r.credit_amount)])
        /\ summary.totalCashSales =
              Total([r \in rows |->
                        IF r.sold_eggs = NULL \/ r.price_per_egg = NULL THEN 0
                        ELSE r.sold_eggs * r.price_per_egg])
        /\ rows = {} => summary = ZeroSummary
        /\ \A k \in DOMAIN summary : summary[k] # NULL

\* The summary of a table of 32 rows, 30 of them listed: the two rows that are
\* not listed count, and the cash sales are 30 * 1.0 + 1 * 1.5 + 2 * 2.0.
C5_Witness ==
    /\ pc = "ready"
    /\ Cardinality(rows) = ListLimit + 2
    /\ Len(dailyRecords) = ListLimit
    /\ summary.totalProduced = ListLimit + 6
    /\ summary.totalCashSales = 355

----------------------------------------------------------------------------
\* Properties of the Schema Manager (under SpecSchema).

\* The run is over: the chain has loaded and no statement is in flight.
RunOver == pc = "ready" /\ Pending = {}

\* C7: a run of initializeDatabase that follows a finished run issues no
\* ADD COLUMN, has no statement rejected, and leaves the columns and the rows
\* as the first run left them.
C7_SecondRunChangesNothing ==
    run >= 2 =>
        /\ \A i \in 1..Len(migrations) : migrations[i].kind # "ADD COLUMN"
        /\ failed = {}
        /\ columns = prev.columns
        /\ rows = prev.rows

\* The first run was on a table that lacked the three current columns.
FirstRunOnBareTable ==
    /\ run = 1
    /\ prev.tableExists
    /\ prev.columns \cap CurrentColumns = {}
    /\ RunOver

OtherColumns(r) ==
    [id |-> r.id, date |-> r.date, produced_eggs |-> r.produced_eggs,
     breakages |-> r.breakages, price_per_egg |-> r.price_per_egg,
     created_at |-> r.created_at, credits |-> r.credits]

\* C8 as stated: the run on a table without sold_eggs, credit_amount and
\* credit_name ends with the three columns present, every row holding 0, 0
\* and '' in them and its other columns unchanged, and no row added or removed.
C8_AddedColumnsHoldDefaults ==
    FirstRunOnBareTable =>
        /\ CurrentColumns \subseteq columns
        /\ Cardinality(rows) = Cardinality(prev.rows)
        /\ \A r \in prev.rows : \E t \in rows :
              /\ OtherColumns(t) = OtherColumns(r)
              /\ t.sold_eggs = 0 /\ t.credit_amount = 0 /\ t.credit_name = ""

\* C8: the same, except that on a table with a legacy credits column a row
\* whose credits is not NULL may hold its credits value in credit_amount.
C8_AddedColumnsHoldDefaultsOrBackfill ==
    FirstRunOnBareTable =>
        /\ CurrentColumns \subseteq columns
        /\ Cardinality(rows) = Cardinality(prev.rows)
        /\ \A r \in prev.rows : \E t \in rows :
              /\ OtherColumns(t) = OtherColumns(r)
              /\ t.sold_eggs = 0 /\ t.credit_name = ""
              /\ \/ t.credit_amount = 0
                 \/ /\ "credits" \in prev.columns
                    /\ r.credits # NULL
                    /\ t.credit_amount = r.credits

\* A run on a bare table with rows and a credits column is over, and one row
\* holds its backfilled credits while another holds the default.
C8_Witness ==
    /\ FirstRunOnBareTable
    /\ "credits" \in prev.columns
    /\ \E t \in rows : t.credit_amount = 30 /\ t.sold_eggs = 0
    /\ \E t \in rows : t.credit_amount = 0 /\ t.credits = NULL

\* The statements of the run that were ALTER TABLE ... ADD COLUMN c.
AddColumnsIssued(c) == {i \in 1..Len(migrations) : migrations[i] = AddColumn(c)}

\* C11: on a table with a legacy credits column, whatever the order the
\* statements in flight execute in, the backfill UPDATE never executes while
\* credit_amount is missing, and when the run is over every row that had a
\* non-NULL credits and no credit_amount other than the default 0 holds its
\* credits in credit_amount, while a row with a non-zero credit_amount keeps it.
C11_BackfillAfterColumnExists ==
    "credits" \in prev.columns =>
        /\ \A i \in executed : migrations[i].kind = "UPDATE" => i \notin failed
        /\ RunOver =>
              \A r \in prev.rows : \E t \in rows :
                  /\ t.id = r.id
                  /\ t.credit_amount =
                        IF r.credit_amount \in {0, NULL}
                        THEN (IF r.credits # NULL THEN r.credits ELSE 0)
                        ELSE r.credit_amount

\* C12: the run issues exactly one ADD COLUMN for each of sold_eggs,
\* credit_amount and credit_name the table lacked when its columns were read,
\* none for a column it had, and no ADD COLUMN of the run is rejected.
C12_OneAddColumnPerMissingColumn ==
    (pc # "boot" /\ prev.tableExists) =>
        /\ \A c \in CurrentColumns :
              Cardinality(AddColumnsIssued(c)) = IF c \in prev.columns THEN 0 ELSE 1
        /\ \A i \in failed : migrations[i].kind # "ADD COLUMN"

----------------------------------------------------------------------------
\* Properties of the fallback (under SpecFallback).

\* Every row the run found is still stored, with the columns it had.
ExistingRowsKept ==
    \A r \in prev.rows : \E t \in rows : OtherColumns(t) = OtherColumns(r)

\* C13: whether the chain of initializeDatabase succeeds or a statement of
\* its detection, creation or migration is rejected, loadDailyRecords is
\* eventually invoked, and no row the run found is lost on the way.
C13_FailureNeverFatal ==
    /\ []ExistingRowsKept
    /\ (pc = "boot") ~> (pc = "ready")

\* The lookup or PRAGMA was rejected on a table with rows that lacks the
\* current columns: no migration was issued, the fallback left the table as
\* it was, and the records are loaded.
C13_Witness ==
    /\ pc = "ready"
    /\ prev.tableExists
    /\ prev.columns \cap CurrentColumns = {}
    /\ migrations = <<>>
    /\ columns = prev.columns
    /\ rows = prev.rows
    /\ Len(dailyRecords) = 2

====
